---------------------------- MODULE Spec2Model ----------------------------
(***************************************************************************)
(* A model of topotein/models/graph_encoders/layers/ETNN.py: the sparse    *)
(* linking helper cast_dense_by_sparse_link, the helpers                   *)
(* compute_sparse_messages and intra_neighborhood_agg, and one pass of     *)
(* ETNNLayer.forward (message, weighted_distance_difference, aggregation,  *)
(* update).                                                                *)
(*                                                                         *)
(* Conventions.  Indices keep the code's 0-based values; a TLA+ sequence   *)
(* is 1-based, so element i of a tensor t is t.r[i + 1].  A dense tensor   *)
(* is a record [ok, w, r]: r the sequence of rows, w the size of the last  *)
(* dimension (known even when there are no rows), ok = FALSE the value of  *)
(* an expression that raised.  A row is a sequence of scalars.  The floats *)
(* of the program are exact rationals <<numerator, denominator>> in lowest *)
(* terms; sparse values, indices and the input coordinates are integers.   *)
(***************************************************************************)
EXTENDS Integers, Sequences, FiniteSets, TLC

VARIABLES pc, args, args0, loc, calls, out

vars == <<pc, args, args0, loc, calls, out>>

-----------------------------------------------------------------------------
(* Bounds of the model *)

\* number of nodes (the key space K of the linking relations)
NNodes == 2
\* number of higher-order cells of one rank (edges, or SSE cells)
NCells == 2
\* largest number of nonzeros of a sparse input; an incidence relation and
\* the relation linked with it hold at most MaxNnz + 1 nonzeros together
MaxNnz == 2
\* feature values are drawn from 1..MaxVal
MaxVal == 2

-----------------------------------------------------------------------------
(* Arithmetic *)

Abs(n) == IF n < 0 THEN -n ELSE n

Max2(a, b) == IF a >= b THEN a ELSE b

RECURSIVE GCD(_, _)
GCD(a, b) == IF b = 0 THEN a ELSE GCD(b, a % b)

\* the rational n/d (d # 0) in lowest terms with a positive denominator
Rat(n, d) ==
    LET g == GCD(Abs(n), Abs(d))
        s == IF d < 0 THEN -1 ELSE 1
    IN  <<s * (n \div g), s * (d \div g)>>

RatOfInt(n) == <<n, 1>>

RatAdd(a, b) == Rat(a[1] * b[2] + b[1] * a[2], a[2] * b[2])

RatDivInt(a, k) == Rat(a[1], a[2] * k)

RatMulInt(a, k) == Rat(a[1] * k, a[2])

RECURSIVE SumInts(_, _)
SumInts(f, S) ==
    IF S = {} THEN 0
    ELSE LET p == CHOOSE q \in S : TRUE IN f[p] + SumInts(f, S \ {p})

RECURSIVE SumRats(_, _)
SumRats(f, S) ==
    IF S = {} THEN RatOfInt(0)
    ELSE LET p == CHOOSE q \in S : TRUE IN RatAdd(f[p], SumRats(f, S \ {p}))

SetMin(S) == CHOOSE m \in S : \A n \in S : m <= n

\* exact on perfect squares, which is all the model feeds it
ISqrt(s) == CHOOSE r \in 0..s : r * r <= s /\ (r + 1) * (r + 1) > s

-----------------------------------------------------------------------------
(* Dense tensors *)

Tensor(w, rows) == [ok |-> TRUE, w |-> w, r |-> rows]

\* the value of an expression that raised (IndexError, RuntimeError)
Raised == [ok |-> FALSE, w |-> 0, r |-> << >>]

Zeros(w) == [c \in 1..w |-> RatOfInt(0)]

\* torch.cat(ts, dim=-1) of tensors with the same number of rows
Cat2(a, b) ==
    IF ~a.ok \/ ~b.ok \/ Len(a.r) # Len(b.r) THEN Raised
    ELSE Tensor(a.w + b.w, [p \in DOMAIN a.r |-> a.r[p] \o b.r[p]])

\* t[index]: one row of t per element of the 0-based index sequence
Gather(t, index) ==
    IF \E p \in DOMAIN index : index[p] < 0 \/ index[p] >= Len(t.r) THEN Raised
    ELSE Tensor(t.w, [p \in DOMAIN index |-> t.r[index[p] + 1]])

-----------------------------------------------------------------------------
(* Sparse COO tensors: [size, idx, val, coal].  idx is the sequence of      *)
(* <<row, column>> pairs in storage order, val the aligned values, coal     *)
(* torch's is_coalesced flag.                                               *)

Sparse(size, idx, val, coal) == [size |-> size, idx |-> idx, val |-> val, coal |-> coal]

PairLess(a, b) == a[1] < b[1] \/ (a[1] = b[1] /\ a[2] < b[2])

RECURSIVE SortPairs(_)
SortPairs(S) ==
    IF S = {} THEN << >>
    ELSE LET m == CHOOSE a \in S : \A b \in S \ {a} : PairLess(a, b)
         IN  <<m>> \o SortPairs(S \ {m})

\* Tensor.coalesce(): the tensor itself when already flagged coalesced,
\* otherwise a new tensor with the indices sorted row-major, duplicates
\* merged and their values summed
Coalesce(S) ==
    IF S.coal THEN S
    ELSE LET order == SortPairs({S.idx[p] : p \in DOMAIN S.idx})
         IN  Sparse(S.size, order,
                    [q \in DOMAIN order |->
                        SumInts(S.val, {p \in DOMAIN S.idx : S.idx[p] = order[q]})],
                    TRUE)

\* Tensor.T of a sparse matrix: the index rows swapped, the storage order
\* kept, the result no longer flagged coalesced
Transpose(S) ==
    Sparse(<<S.size[2], S.size[1]>>,
           [p \in DOMAIN S.idx |-> <<S.idx[p][2], S.idx[p][1]>>], S.val, FALSE)

\* S.indices()[d] of a coalesced tensor, d = 0 or 1
IndexRow(S, d) == [p \in DOMAIN S.idx |-> S.idx[p][d + 1]]

-----------------------------------------------------------------------------
(* torch_scatter *)

\* torch_scatter.scatter_min(src, index, dim=0, dim_size=n) of a 1-D src:
\* out[k] is the least src[p] with index[p] = k and arg[k] the position p
\* that holds it.  A group k that receives no element comes back as 0 in
\* out and as src.size(0) in arg (torch_scatter 2.x, the release that goes
\* with the torch of torch.load(..., weights_only=...) in __main__; -1 was
\* the convention of the 1.x releases).
scatter_min(src, index, dim_size) ==
    LET grp(k) == {p \in DOMAIN src : index[p] = k}
        least(k) == SetMin({src[p] : p \in grp(k)})
    IN  [out |-> [k1 \in 1..dim_size |->
                    IF grp(k1 - 1) = {} THEN 0 ELSE least(k1 - 1)],
         arg |-> [k1 \in 1..dim_size |->
                    IF grp(k1 - 1) = {} THEN Len(src)
                    ELSE (CHOOSE p \in grp(k1 - 1) : src[p] = least(k1 - 1)) - 1]]

\* torch_scatter.scatter_mean(src, index, dim=0, dim_size=n) of float rows:
\* the sum of each group divided by max(1, its count); index must have one
\* entry per row of src
scatter_mean(src, index, dim_size) ==
    IF ~src.ok \/ Len(src.r) # Len(index) THEN Raised
    ELSE LET grp(k) == {p \in DOMAIN index : index[p] = k}
         IN  Tensor(src.w,
                [k1 \in 1..dim_size |->
                    [c \in 1..src.w |->
                        RatDivInt(SumRats([p \in DOMAIN src.r |-> src.r[p][c]], grp(k1 - 1)),
                                  Max2(1, Cardinality(grp(k1 - 1))))]])

-----------------------------------------------------------------------------
(* The module-level helpers *)

\* the table with the last position of each key instead of the first
LinkMappingLast(keys_S1, dim_size) ==
    LET grp(k) == {p \in DOMAIN keys_S1 : keys_S1[p] = k}
    IN  [k1 \in 1..dim_size |->
            IF grp(k1 - 1) = {} THEN 0
            ELSE (CHOOSE p \in grp(k1 - 1) : \A r \in grp(k1 - 1) : r <= p) - 1]

\* the key -> position table of cast_dense_by_sparse_link (lines 56-62)
LinkMapping(keys_S1, dim_size) ==
    LET positions == [p \in DOMAIN keys_S1 |-> p - 1]
        sm == scatter_min(positions, keys_S1, dim_size)
    IN  [k1 \in 1..dim_size |-> IF sm.arg[k1] = -1 THEN -1 ELSE sm.out[k1]]

cast_dense_by_sparse_link(x, S1, S2) ==
    LET S1c == Coalesce(S1)
        keys_S1 == IndexRow(S1c, 1)
        S2c == Coalesce(S2)
        keys_S2 == IndexRow(S2c, 0)
        mapping_out == LinkMapping(keys_S1, S1c.size[2])
        mapped_idx == [q \in DOMAIN keys_S2 |-> mapping_out[keys_S2[q] + 1]]
        valid == {q \in DOMAIN mapped_idx : mapped_idx[q] # -1}
    IN  IF ~x.ok THEN Raised
        ELSE IF \E q \in valid : mapped_idx[q] >= Len(x.r) THEN Raised
        ELSE Tensor(x.w, [q \in DOMAIN mapped_idx |->
                            IF q \in valid THEN x.r[mapped_idx[q] + 1] ELSE Zeros(x.w)])

compute_sparse_messages(M, H) ==
    LET Mc == Coalesce(M)
        rows == Gather(H, IndexRow(Mc, 1))
    IN  IF ~rows.ok THEN Raised
        ELSE Tensor(H.w, [p \in DOMAIN Mc.idx |->
                            [c \in 1..H.w |-> RatMulInt(rows.r[p][c], Mc.val[p])]])

intra_neighborhood_agg(M, msgs) ==
    LET Mc == Coalesce(M)
    IN  scatter_mean(msgs, IndexRow(Mc, 0), Mc.size[1])

-----------------------------------------------------------------------------
(* Inputs *)

\* the coalesced sparse tensor with the given set of index pairs and values
Canonical(size, pairs, valOf) ==
    LET order == SortPairs(pairs)
    IN  Sparse(size, order, [q \in DOMAIN order |-> valOf[order[q]]], TRUE)

\* the same matrix as a caller may hand it over before coalescing: storage
\* order reversed, and the first entry stored in two halves
Unsorted(S) ==
    LET n == Len(S.idx)
        ridx == [p \in 1..n |-> S.idx[n + 1 - p]]
        rval == [p \in 1..n |-> S.val[n + 1 - p]]
    IN  IF n = 0 THEN Sparse(S.size, S.idx, S.val, FALSE)
        ELSE Sparse(S.size, ridx \o <<S.idx[1]>>,
                    [p \in 1..n |-> IF p = n THEN rval[p] - 1 ELSE rval[p]] \o <<1>>,
                    FALSE)

IndexSets(rows, cols) ==
    {P \in SUBSET ((0..(rows - 1)) \X (0..(cols - 1))) : Cardinality(P) <= MaxNnz}

\* coalesced 0/1 incidence or adjacency patterns of a given shape
Patterns(rows, cols) ==
    {Canonical(<<rows, cols>>, P, [e \in P |-> 1]) : P \in IndexSets(rows, cols)}

\* a relation S1 of shape (rows, keys) with a relation S2 of shape
\* (keys, keys) over the same key space
LinkedPatterns(rows, keys) ==
    {sp \in Patterns(rows, keys) \X Patterns(keys, keys) :
        Len(sp[1].idx) + Len(sp[2].idx) <= MaxNnz + 1}

\* dense [n, 1] tensors with rows first, first + 1, ...: pairwise distinct
\* and nonzero
Ramp(n, first) == Tensor(1, [p \in 1..n |-> <<RatOfInt(first + p - 1)>>])

\* dense [n, 1] feature tensors over 1..MaxVal
Features(n) == {Tensor(1, [p \in 1..n |-> <<RatOfInt(f[p])>>]) : f \in [1..n -> 1..MaxVal]}

-----------------------------------------------------------------------------
(* The helpers called on their own.  args holds the caller's tensors, args0 *)
(* what they held at the call, out the returned tensor.                     *)

NoLocals == [stage |-> "none"]

HelperInit ==
    /\ \/ /\ pc = "cast"
          /\ \E sp \in LinkedPatterns(NCells, NNodes), first \in 1..MaxVal, raw \in BOOLEAN :
                args = [x  |-> Ramp(Len(sp[1].idx), first),
                        S1 |-> IF raw THEN Unsorted(sp[1]) ELSE sp[1],
                        S2 |-> IF raw THEN Unsorted(sp[2]) ELSE sp[2]]
       \/ /\ pc = "compute"
          /\ \E P \in IndexSets(NNodes, NCells), first \in 1..MaxVal,
                v \in 1..MaxVal, raw \in BOOLEAN :
                LET M == Canonical(<<NNodes, NCells>>, P, [e \in P |-> v])
                IN  args = [M |-> IF raw THEN Unsorted(M) ELSE M,
                            H |-> Ramp(NCells, first)]
       \/ /\ pc = "intra"
          /\ \E M \in Patterns(NNodes, NNodes), raw \in BOOLEAN :
                \E msgs \in Features(Len(M.idx)) :
                    args = [M |-> IF raw THEN Unsorted(M) ELSE M, msgs |-> msgs]
    /\ args0 = args
    /\ loc = NoLocals
    /\ calls = << >>
    /\ out = Raised

CallCast ==
    /\ pc = "cast"
    /\ out' = cast_dense_by_sparse_link(args.x, args.S1, args.S2)
    /\ pc' = "cast_returned"
    /\ UNCHANGED <<args, args0, loc, calls>>

CallCompute ==
    /\ pc = "compute"
    /\ out' = compute_sparse_messages(args.M, args.H)
    /\ pc' = "compute_returned"
    /\ UNCHANGED <<args, args0, loc, calls>>

CallIntra ==
    /\ pc = "intra"
    /\ out' = intra_neighborhood_agg(args.M, args.msgs)
    /\ pc' = "intra_returned"
    /\ UNCHANGED <<args, args0, loc, calls>>

HelperNext == CallCast \/ CallCompute \/ CallIntra

-----------------------------------------------------------------------------
(* The feature transformers.  The layer treats phi_sse, phi_edge, phi_x and *)
(* phi_update as opaque row-wise functions of fixed input and output width; *)
(* the model stands an integer affine map in for each.                      *)

\* bias + sum of weights[c] * row[c], integer weights and a rational row
RECURSIVE AffineRow(_, _, _)
AffineRow(weights, bias, row) ==
    IF weights = << >> THEN RatOfInt(bias)
    ELSE RatAdd(RatMulInt(row[1], weights[1]), AffineRow(Tail(weights), bias, Tail(row)))

Affine(weights, bias, t) ==
    IF ~t.ok \/ t.w # Len(weights) THEN Raised
    ELSE Tensor(1, [p \in DOMAIN t.r |-> <<AffineRow(weights, bias, t.r[p])>>])

phi_sse(t) == Affine(<<2, 1, 5, 3>>, 0, t)

phi_edge(t) == Affine(<<1, 2, 3, 5>>, 0, t)

phi_x(t) == Affine(<<1>>, -20, t)

phi_update(t) == Affine(<<1, 2>>, 1, t)

-----------------------------------------------------------------------------
(* ETNNLayer.message *)

Norm(v) == ISqrt(v[1] * v[1] + v[2] * v[2] + v[3] * v[3])

\* the first operand alone, the second never subtracted
VecKeep(u, v) == u

VecSub(u, v) == [c \in DOMAIN u |-> u[c] - v[c]]

\* the record of one cast_dense_by_sparse_link call: x_for[p] is the
\* nonzero, in the index pairs of relation x_rel, that row p of the dense
\* argument was computed for; S1_idx is the coalesced enumeration of the
\* first linking relation S1_rel
LinkCall(site, x_rel, x_for, x_rows, S1_rel, S1, ok) ==
    [site |-> site, x_rel |-> x_rel, x_for |-> x_for, x_rows |-> x_rows,
     S1_rel |-> S1_rel, S1_idx |-> Coalesce(S1).idx, ok |-> ok]

\* the nonzeros of Rinc, as <<cell, node>> pairs, in the order in which
\* compute_sparse_messages(Rinc.T, Hk) lays out its rows
TransposedOrder(Rinc) ==
    LET Tc == Coalesce(Transpose(Rinc))
    IN  [p \in DOMAIN Tc.idx |-> <<Tc.idx[p][2], Tc.idx[p][1]>>]

\* torch.cat([H0_i, H0_j, dist_norm, carried], dim=-1) with the result of
\* the cast_dense_by_sparse_link call on record
CarriedRows(ends, dist_norm, carried, call) ==
    IF ~carried.ok
    THEN [ok |-> FALSE, cat |-> Raised, carried |-> Raised, calls |-> <<call>>]
    ELSE [ok |-> TRUE, cat |-> Cat2(ends, Cat2(dist_norm, carried)),
          carried |-> carried, calls |-> <<call>>]

\* the carried rows with the per-incidence messages reduced by
\* intra_neighborhood_agg before they are relinked
CarriedOfMeans(Hk, R, Rinc) ==
    cast_dense_by_sparse_link(
        intra_neighborhood_agg(Transpose(Rinc),
                               compute_sparse_messages(Transpose(Rinc), Hk)),
        Rinc, R)

\* the carried higher-order rows of one half of message (line 222, or 234)
Carried(Hk, R, Rinc) ==
    cast_dense_by_sparse_link(compute_sparse_messages(Transpose(Rinc), Hk), Rinc, R)

\* one half of message (lines 213-223, or 225-235): the input rows of the
\* transformer for the node-to-node relation R with incidence relation Rinc
\* and cell features Hk.  R.indices() raises on a tensor that is not
\* coalesced.
RelationMessage(X, H0, Hk, R, Rinc, name) ==
    LET H0_i == Gather(H0, IndexRow(R, 0))
        H0_j == Gather(H0, IndexRow(R, 1))
        X_i == Gather(X, IndexRow(R, 0))
        X_j == Gather(X, IndexRow(R, 1))
        dist_norm == Tensor(1, [p \in DOMAIN R.idx |->
                                    <<RatOfInt(Norm(VecSub(X_i.r[p], X_j.r[p])))>>])
    IN  IF ~R.coal \/ ~H0_i.ok \/ ~H0_j.ok \/ ~X_i.ok \/ ~X_j.ok
        THEN [ok |-> FALSE, cat |-> Raised, carried |-> Raised, calls |-> << >>]
        ELSE CHOOSE res \in
                {CarriedRows(Cat2(H0_i, H0_j), dist_norm, carried,
                             LinkCall("message", name, TransposedOrder(Rinc),
                                      Len(TransposedOrder(Rinc)), name, Rinc, carried.ok))
                    : carried \in {Carried(Hk, R, Rinc)}} : TRUE

\* lines 218-223 and 230-236: the two transformers applied, the second half
\* only reached when the first did not raise
JoinMessages(sse, edge) ==
    IF ~sse.ok
    THEN [ok |-> FALSE, msg_sse |-> Raised, msg_edge |-> Raised,
          carried_sse |-> Raised, carried_edge |-> Raised, calls |-> sse.calls]
    ELSE [ok |-> edge.ok, msg_sse |-> phi_sse(sse.cat), msg_edge |-> phi_edge(edge.cat),
          carried_sse |-> sse.carried, carried_edge |-> edge.carried,
          calls |-> sse.calls \o edge.calls]

message(a) ==
    JoinMessages(RelationMessage(a.X, a.H0, a.H2, a.N0_0_via_2, a.N2_0, "N2_0"),
                 RelationMessage(a.X, a.H0, a.H1, a.N0_0_via_1, a.N1_0, "N1_0"))

-----------------------------------------------------------------------------
(* ETNNLayer.weighted_distance_difference *)

\* the per-source sums of line 262 returned without the division of line 270
NormalizedSum(X, A, w) ==
    LET E == DOMAIN A.idx
        diffs(p) == VecSub(X.r[A.idx[p][1] + 1], X.r[A.idx[p][2] + 1])
        normalized_diffs(p) ==
            [c \in 1..3 |-> RatDivInt(RatMulInt(w.r[p][1], diffs(p)[c]), Norm(diffs(p)) + 1)]
        from(i) == {p \in E : A.idx[p][1] = i}
    IN  IF ~w.ok \/ Len(w.r) # Len(A.idx) THEN Raised
        ELSE Tensor(3, [i1 \in 1..Len(X.r) |->
                [c \in 1..3 |-> SumRats([p \in E |-> normalized_diffs(p)[c]], from(i1 - 1))]])

\* lines 242-272: w holds the weights after line 240
NormalizedMean(X, A, w) ==
    LET edge_indices == A.idx
        E == DOMAIN edge_indices
        n == Len(X.r)
        diffs(p) == VecSub(X.r[edge_indices[p][1] + 1], X.r[edge_indices[p][2] + 1])
        normalized_diffs(p) ==
            [c \in 1..3 |-> RatDivInt(RatMulInt(w.r[p][1], diffs(p)[c]), Norm(diffs(p)) + 1)]
        from(i) == {p \in E : edge_indices[p][1] = i}
        result_sum(i) ==
            [c \in 1..3 |-> SumRats([p \in E |-> normalized_diffs(p)[c]], from(i))]
        counts(i) == Cardinality(from(i))
    IN  IF ~w.ok \/ Len(w.r) # Len(edge_indices) THEN Raised
        ELSE Tensor(3, [i1 \in 1..n |->
                [c \in 1..3 |-> RatDivInt(result_sum(i1 - 1)[c], Max2(1, counts(i1 - 1)))]])

weighted_distance_difference(X, A, B, weights) ==
    NormalizedMean(X, A, cast_dense_by_sparse_link(weights, B, A))

-----------------------------------------------------------------------------
(* topotein.models.aggregation: the reducers the layer is built with.  The  *)
(* intra reducer combines the messages of a relation by source node, one    *)
(* row per node and zero for a node without nonzeros; the inter reducer     *)
(* combines per-node tensors of several relations.                          *)

IntraNeighborhoodAggregator(aggr_func, R, msgs) ==
    LET src == IndexRow(R, 0)
        grp(i) == {p \in DOMAIN src : src[p] = i}
        total(i, c) == SumRats([p \in DOMAIN msgs.r |-> msgs.r[p][c]], grp(i))
    IN  IF ~msgs.ok \/ Len(msgs.r) # Len(src) THEN Raised
        ELSE Tensor(msgs.w, [i1 \in 1..R.size[1] |->
                [c \in 1..msgs.w |->
                    IF aggr_func = "sum" THEN total(i1 - 1, c)
                    ELSE RatDivInt(total(i1 - 1, c), Max2(1, Cardinality(grp(i1 - 1))))]])

InterNeighborhoodAggregator(aggr_func, a, b) ==
    IF ~a.ok \/ ~b.ok \/ Len(a.r) # Len(b.r) \/ a.w # b.w THEN Raised
    ELSE Tensor(a.w, [i1 \in DOMAIN a.r |->
            [c \in 1..a.w |->
                IF aggr_func = "sum" THEN RatAdd(a.r[i1][c], b.r[i1][c])
                ELSE RatDivInt(RatAdd(a.r[i1][c], b.r[i1][c]), 2)]])

-----------------------------------------------------------------------------
(* ETNNLayer.forward, stage by stage *)

\* the reducer of intra_neighborhood_agg chosen for the layer
aggr_intra_mean == "mean"

\* the reducers chosen in __init__
aggr_intra == "sum"

aggr_inter == "sum"

\* a tensor object: id tells objects apart, t is what the object holds
Obj(id, t) == [id |-> id, t |-> t]

Unbound == Raised

\* the Python int 0 that x_update is bound to without position_update
ScalarZero == Tensor(0, << >>)

\* the locals at entry: the parameters H0 and X are bound to the caller's
\* tensors
EntryLocals(a) ==
    [msg_sse |-> Unbound, msg_edge |-> Unbound,
     carried_sse |-> Unbound, carried_edge |-> Unbound,
     msg_pos_via_1 |-> Unbound, msg_pos_via_2 |-> Unbound,
     h_update |-> Unbound, x_update |-> Unbound,
     H0 |-> Obj("H0", a.H0), X |-> Obj("X", a.X)]

\* lines 192-193 with their cast_dense_by_sparse_link calls on record; the
\* second call is only reached when the first did not raise
PositionPair(a, w1, w2, p1, p2) ==
    IF ~p1.ok
    THEN [ok |-> FALSE, msg_pos_via_1 |-> Unbound, msg_pos_via_2 |-> Unbound,
          calls |-> <<LinkCall("weighted_distance_difference", "N0_0_via_1",
                               a.N0_0_via_1.idx, Len(w1.r), "N1_0", a.N1_0, p1.ok)>>]
    ELSE [ok |-> p2.ok, msg_pos_via_1 |-> p1, msg_pos_via_2 |-> p2,
          calls |-> <<LinkCall("weighted_distance_difference", "N0_0_via_1",
                               a.N0_0_via_1.idx, Len(w1.r), "N1_0", a.N1_0, p1.ok),
                      LinkCall("weighted_distance_difference", "N0_0_via_2",
                               a.N0_0_via_2.idx, Len(w2.r), "N2_0", a.N2_0, p2.ok)>>]

\* step 2, the coordinate half (lines 191-193)
PositionMessages(a, l) ==
    IF ~a.position_update
    THEN [ok |-> TRUE, msg_pos_via_1 |-> Unbound, msg_pos_via_2 |-> Unbound,
          calls |-> << >>]
    ELSE CHOOSE res \in
            {PositionPair(a, w1, w2,
                          weighted_distance_difference(a.X, a.N0_0_via_1, a.N1_0, w1),
                          weighted_distance_difference(a.X, a.N0_0_via_2, a.N2_0, w2))
                : w1 \in {phi_x(l.msg_edge)}, w2 \in {phi_x(l.msg_sse)}} : TRUE

\* step 2, the feature half (lines 195-196)
IntraAggregateFeatures(a, l) ==
    [msg_sse |-> IntraNeighborhoodAggregator(aggr_intra, a.N0_0_via_2, l.msg_sse),
     msg_edge |-> IntraNeighborhoodAggregator(aggr_intra, a.N0_0_via_1, l.msg_edge)]

\* step 3 (lines 198-203)
InterAggregate(a, l) ==
    [h_update |-> InterNeighborhoodAggregator(aggr_inter, l.msg_sse, l.msg_edge),
     x_update |-> IF a.position_update
                  THEN InterNeighborhoodAggregator(aggr_inter, l.msg_pos_via_1,
                                                   l.msg_pos_via_2)
                  ELSE ScalarZero]

\* the update alone, the residual X dropped
UpdateOnly(X, x_update) ==
    IF ~x_update.ok THEN Raised
    ELSE IF x_update = ScalarZero
    THEN Tensor(X.w, [i1 \in DOMAIN X.r |-> [c \in 1..X.w |-> RatOfInt(0)]])
    ELSE x_update

\* X + x_update for integer coordinates X
AddCoordinates(X, x_update) ==
    IF ~x_update.ok THEN Raised
    ELSE IF x_update = ScalarZero
    THEN Tensor(X.w, [i1 \in DOMAIN X.r |-> [c \in 1..X.w |-> RatOfInt(X.r[i1][c])]])
    ELSE IF Len(x_update.r) # Len(X.r) \/ x_update.w # X.w THEN Raised
    ELSE Tensor(X.w, [i1 \in DOMAIN X.r |->
            [c \in 1..X.w |-> RatAdd(RatOfInt(X.r[i1][c]), x_update.r[i1][c])]])

\* H0 + H0_update
AddFeatures(H0, H0_update) ==
    IF ~H0_update.ok \/ Len(H0_update.r) # Len(H0.r) THEN Raised
    ELSE Tensor(H0.w, [i1 \in DOMAIN H0.r |->
            [c \in 1..H0.w |-> RatAdd(H0.r[i1][c], H0_update.r[i1][c])]])

\* step 4 with the feature update accumulated into the caller's tensor
\* (H0 += H0_update)
ForwardUpdateInPlace(a, l) ==
    LET H0_update == phi_update(Cat2(l.H0.t, l.h_update))
        H0_new == AddFeatures(l.H0.t, H0_update)
    IN  [args |-> [a EXCEPT !.H0 = H0_new],
         H0 |-> Obj(l.H0.id, H0_new),
         X |-> Obj("X + x_update", AddCoordinates(l.X.t, l.x_update))]

\* step 4 (lines 206-208): both sums build new tensors and rebind the local
\* names; the caller's tensors are only read
ForwardUpdate(a, l) ==
    LET H0_update == phi_update(Cat2(l.H0.t, l.h_update))
    IN  [args |-> a,
         H0 |-> Obj("H0 + H0_update", AddFeatures(l.H0.t, H0_update)),
         X |-> Obj("X + x_update", AddCoordinates(l.X.t, l.x_update))]

NoObj == Obj("none", Unbound)

NoOut == [H0 |-> NoObj, X |-> NoObj]

\* the new H0 handed to the caller as soon as step 4 has computed it
VisibleEarly(stage, l) ==
    IF stage = "DONE" THEN [H0 |-> l.H0, X |-> l.X]
    ELSE IF stage = "UPDATE" THEN [H0 |-> l.H0, X |-> NoObj]
    ELSE NoOut

\* what the caller holds of the results at a stage: the tuple of line 209
\* once forward has returned, nothing before
Visible(stage, l) == IF stage = "DONE" THEN [H0 |-> l.H0, X |-> l.X] ELSE NoOut

\* an exception raised in a stage propagates out of forward
Advance(stage, ok) == IF ok THEN stage ELSE "FAILED"

-----------------------------------------------------------------------------
(* One invocation of forward as a state machine.  pc is the last stage      *)
(* entered; args holds the caller's tensors and the layer's                 *)
(* position_update, args0 what they held at the call, loc the locals of     *)
(* forward, calls the cast_dense_by_sparse_link calls made so far, out what *)
(* the caller has received.                                                 *)

\* node coordinates with integer pairwise distances (0, 15, 20 and 25),
\* multiples of 5 so that the rotations below keep them integers
PointOf(i) ==
    CASE i % 3 = 0 -> <<0, 0, 0>>
      [] i % 3 = 1 -> <<15, 0, 0>>
      [] OTHER     -> <<0, 20, 0>>

Spread(n) == Tensor(3, [i1 \in 1..n |-> PointOf(i1 - 1)])

\* the relations of a complex with one cell that holds nodes 0 and 1
PairCell == Canonical(<<NCells, NNodes>>, {<<0, 0>>, <<0, 1>>}, [e \in {<<0, 0>>, <<0, 1>>} |-> 1])

PairCellNeighbours ==
    LET P == {<<0, 0>>, <<0, 1>>, <<1, 0>>, <<1, 1>>}
    IN  Canonical(<<NNodes, NNodes>>, P, [e \in P |-> 1])

\* a complex without cells of the rank
NoCell == Canonical(<<NCells, NNodes>>, {}, << >>)

NoNeighbours == Canonical(<<NNodes, NNodes>>, {}, << >>)

\* an incidence relation with the node-to-node relation passed along with
\* it, as the caller may pass them
RelationPairs ==
    LinkedPatterns(NCells, NNodes)
    \cup {<<Unsorted(inc), PairCellNeighbours>> : inc \in Patterns(NCells, NNodes)}
    \cup {<<PairCell, Unsorted(nbr)>> : nbr \in Patterns(NNodes, NNodes)}

\* the relations of the other rank
OtherPairs == {<<PairCell, PairCellNeighbours>>, <<NoCell, NoNeighbours>>}

ForwardInit ==
    /\ pc = "INIT"
    /\ \E rp \in RelationPairs, op \in OtherPairs, second \in BOOLEAN,
          position_update \in BOOLEAN :
          args = [X |-> Spread(NNodes),
                  H0 |-> Ramp(NNodes, 1),
                  H1 |-> Ramp(NCells, 1),
                  H2 |-> Ramp(NCells, MaxVal),
                  N1_0 |-> IF second THEN op[1] ELSE rp[1],
                  N0_0_via_1 |-> IF second THEN op[2] ELSE rp[2],
                  N2_0 |-> IF second THEN rp[1] ELSE op[1],
                  N0_0_via_2 |-> IF second THEN rp[2] ELSE op[2],
                  position_update |-> position_update]
    /\ args0 = args
    /\ loc = EntryLocals(args)
    /\ calls = << >>
    /\ out = NoOut

Frame == [pc |-> pc, args |-> args, loc |-> loc, calls |-> calls, out |-> out]

EntryFrame(a) ==
    [pc |-> "INIT", args |-> a, loc |-> EntryLocals(a), calls |-> << >>, out |-> NoOut]

\* the frame after a stage: stage is the stage entered when ok, l the locals
\* it leaves, cs the cast_dense_by_sparse_link calls it made
Staged(f, stage, ok, a, l, cs) ==
    [pc |-> Advance(stage, ok), args |-> a, loc |-> l, calls |-> f.calls \o cs,
     out |-> Visible(Advance(stage, ok), l)]

\* step 1 (line 188)
StepMessage(f) ==
    CHOOSE g \in
        {Staged(f, "MESSAGE", m.ok, f.args,
                [f.loc EXCEPT !.msg_sse = m.msg_sse, !.msg_edge = m.msg_edge,
                              !.carried_sse = m.carried_sse,
                              !.carried_edge = m.carried_edge],
                m.calls) : m \in {message(f.args)}} : TRUE

\* step 2 (lines 191-196)
StepIntraAggregate(f) ==
    CHOOSE g \in
        {Staged(f, "INTRA_AGGREGATE", pos.ok /\ agg.msg_sse.ok /\ agg.msg_edge.ok, f.args,
                IF pos.ok
                THEN [f.loc EXCEPT !.msg_pos_via_1 = pos.msg_pos_via_1,
                                   !.msg_pos_via_2 = pos.msg_pos_via_2,
                                   !.msg_sse = agg.msg_sse, !.msg_edge = agg.msg_edge]
                ELSE f.loc,
                pos.calls)
            : pos \in {PositionMessages(f.args, f.loc)},
              agg \in {IntraAggregateFeatures(f.args, f.loc)}} : TRUE

\* step 3 (lines 198-203)
StepInterAggregate(f) ==
    CHOOSE g \in
        {Staged(f, "INTER_AGGREGATE", agg.h_update.ok /\ agg.x_update.ok, f.args,
                [f.loc EXCEPT !.h_update = agg.h_update, !.x_update = agg.x_update],
                << >>) : agg \in {InterAggregate(f.args, f.loc)}} : TRUE

\* step 4 (lines 206-208)
StepUpdate(f) ==
    CHOOSE g \in
        {Staged(f, "UPDATE", u.H0.t.ok /\ u.X.t.ok, u.args,
                [f.loc EXCEPT !.H0 = u.H0, !.X = u.X], << >>)
            : u \in {ForwardUpdate(f.args, f.loc)}} : TRUE

\* line 209
StepReturn(f) == Staged(f, "DONE", TRUE, f.args, f.loc, << >>)

\* a stage is run only when the one before it did not raise
Then(f, stage, g) == IF f.pc = stage THEN g ELSE f

\* forward(X, H0, H1, H2, N0_0_via_1, N0_0_via_2, N2_0, N1_0) from call to
\* return or raise
forward(a) ==
    CHOOSE f5 \in
        {Then(f4, "UPDATE", StepReturn(f4)) : f4 \in
            {Then(f3, "INTER_AGGREGATE", StepUpdate(f3)) : f3 \in
                {Then(f2, "INTRA_AGGREGATE", StepInterAggregate(f2)) : f2 \in
                    {Then(f1, "MESSAGE", StepIntraAggregate(f1)) : f1 \in
                        {StepMessage(EntryFrame(a))}}}}} : TRUE

Become(f) ==
    /\ pc' = f.pc
    /\ args' = f.args
    /\ loc' = f.loc
    /\ calls' = f.calls
    /\ out' = f.out
    /\ UNCHANGED args0

Message == pc = "INIT" /\ \E f \in {StepMessage(Frame)} : Become(f)

IntraAggregate == pc = "MESSAGE" /\ \E f \in {StepIntraAggregate(Frame)} : Become(f)

InterAggregateStep == pc = "INTRA_AGGREGATE" /\ \E f \in {StepInterAggregate(Frame)} : Become(f)

Update == pc = "INTER_AGGREGATE" /\ \E f \in {StepUpdate(Frame)} : Become(f)

Return == pc = "UPDATE" /\ \E f \in {StepReturn(Frame)} : Become(f)

ForwardNext == Message \/ IntraAggregate \/ InterAggregateStep \/ Update \/ Return

Init == ForwardInit \/ HelperInit

Next == ForwardNext \/ HelperNext

Spec == Init /\ [][Next]_vars

-----------------------------------------------------------------------------
(* Two invocations on the same features, relations and weights, the second  *)
(* on the coordinates X Q + t.                                              *)

\* orthogonal matrices n / d with integer n: the turn about the third axis
\* with cosine 3/5 and sine 4/5, a cyclic exchange of the axes, a
\* reflection, the identity
Rotations ==
    {[n |-> <<<<3, 4, 0>>, <<-4, 3, 0>>, <<0, 0, 5>>>>, d |-> 5],
     [n |-> <<<<0, 1, 0>>, <<0, 0, 1>>, <<1, 0, 0>>>>, d |-> 1],
     [n |-> <<<<-1, 0, 0>>, <<0, 1, 0>>, <<0, 0, 1>>>>, d |-> 1],
     [n |-> <<<<1, 0, 0>>, <<0, 1, 0>>, <<0, 0, 1>>>>, d |-> 1]}

Translations == {<<0, 0, 0>>, <<1, -2, 3>>}

\* the row vector v Q + t, an integer vector for the coordinates of PointOf
MoveRow(v, Q, t) ==
    [c \in 1..3 |-> ((v[1] * Q.n[1][c] + v[2] * Q.n[2][c] + v[3] * Q.n[3][c]) \div Q.d) + t[c]]

\* X @ Q + t
Moved(X, Q, t) == Tensor(3, [i1 \in DOMAIN X.r |-> MoveRow(X.r[i1], Q, t)])

PairInit ==
    /\ pc = "pair"
    /\ \E nbr1 \in Patterns(NNodes, NNodes), same \in BOOLEAN, raw \in BOOLEAN,
          position_update \in BOOLEAN, Q \in Rotations, t \in Translations :
          args = [X |-> Spread(NNodes),
                  H0 |-> Ramp(NNodes, 1),
                  H1 |-> Ramp(NCells, 1),
                  H2 |-> Ramp(NCells, MaxVal),
                  N1_0 |-> IF raw THEN Unsorted(PairCell) ELSE PairCell,
                  N0_0_via_1 |-> nbr1,
                  N2_0 |-> PairCell,
                  N0_0_via_2 |-> IF same THEN nbr1 ELSE PairCellNeighbours,
                  position_update |-> position_update,
                  Q |-> Q, t |-> t]
    /\ args0 = args
    /\ loc = NoLocals
    /\ calls = << >>
    /\ out = [plain |-> EntryFrame(args), moved |-> EntryFrame(args)]

RunPair ==
    /\ pc = "pair"
    /\ out' = [plain |-> forward(args),
               moved |-> forward([args EXCEPT !.X = Moved(args.X, args.Q, args.t)])]
    /\ pc' = "pair_returned"
    /\ UNCHANGED <<args, args0, loc, calls>>

PairSpec == PairInit /\ [][RunPair]_vars

-----------------------------------------------------------------------------
(* Properties of cast_dense_by_sparse_link *)

\* the canonical (row-major, duplicates merged) enumeration of the nonzeros
\* of S
Enumeration(S) == SortPairs({S.idx[p] : p \in DOMAIN S.idx})

\* the 0-based positions, in the canonical enumeration of S, of the nonzeros
\* with column index k
ColumnPositions(S, k) ==
    LET E == Enumeration(S)
    IN  {p - 1 : p \in {q \in DOMAIN E : E[q][2] = k}}

\* the row key of the q-th nonzero of S in its canonical enumeration
RowKey(S, q) == Enumeration(S)[q][1]

\* C1: for every nonzero (k, c) of S2 whose key k is the column index of at
\* least one nonzero of S1, the row of y at that nonzero's position in S2's
\* canonical enumeration is the row x[p] with p the smallest position, in
\* S1's canonical enumeration, of a nonzero with column k; y has one row
\* per nonzero of S2.
C1_FirstOccurrence ==
    pc = "cast_returned" =>
        \A q \in DOMAIN Enumeration(args.S2) :
            ColumnPositions(args.S1, RowKey(args.S2, q)) # {} =>
                /\ out.ok
                /\ Len(out.r) = Len(Enumeration(args.S2))
                /\ out.r[q] = args.x.r[SetMin(ColumnPositions(args.S1, RowKey(args.S2, q))) + 1]

\* a returned call with a key of S2 that two nonzeros of S1 share, the rows
\* of x for them being different
C1_SharedKey ==
    /\ pc = "cast_returned"
    /\ out.ok
    /\ \E q \in DOMAIN Enumeration(args.S2) :
          \E p1, p2 \in ColumnPositions(args.S1, RowKey(args.S2, q)) :
              p1 < p2 /\ args.x.r[p1 + 1] # args.x.r[p2 + 1]

\* C2: for every nonzero (k, c) of S2 whose key k is not the column index of
\* any nonzero of S1, the call returns and the corresponding row of y is all
\* zeros, also when S1 has no nonzeros at all.
C2_MissingKeyZero ==
    pc = "cast_returned" =>
        /\ out.ok
        /\ \A q \in DOMAIN Enumeration(args.S2) :
              ColumnPositions(args.S1, RowKey(args.S2, q)) = {} =>
                out.r[q] = Zeros(args.x.w)

-----------------------------------------------------------------------------
(* Properties of ETNNLayer.message *)

AfterMessage == {"MESSAGE", "INTRA_AGGREGATE", "INTER_AGGREGATE", "UPDATE", "DONE"}

\* value(c, n) x feature-row of cell c for each nonzero of the transposed
\* incidence relation, in the canonical enumeration of the transposed
\* relation (by node, then by cell)
IncidenceMessages(Hk, Rinc) ==
    LET T == Enumeration(Transpose(Rinc))
        value(e) == SumInts(Rinc.val, {r \in DOMAIN Rinc.idx : Rinc.idx[r] = <<e[2], e[1]>>})
    IN  [p \in DOMAIN T |->
            [c \in 1..Hk.w |-> RatMulInt(Hk.r[T[p][2] + 1][c], value(T[p]))]]

\* the carried rows are the per-incidence messages themselves, picked for
\* each nonzero (i, j) of R at the position of the first nonzero of Rinc
\* with column i (position 0 when there is none)
CarriedDirect(carried, Hk, R, Rinc) ==
    /\ carried.ok
    /\ \A E \in {Enumeration(R)}, msgs \in {IncidenceMessages(Hk, Rinc)} :
          /\ Len(carried.r) = Len(E)
          /\ \A q \in DOMAIN E :
                \A pos \in {ColumnPositions(Rinc, E[q][1])} :
                    /\ Len(msgs) > 0
                    /\ carried.r[q] = msgs[(IF pos = {} THEN 0 ELSE SetMin(pos)) + 1]

PerCellMean(Hk, Rinc) ==
    LET T == Enumeration(Transpose(Rinc))
        of(cell) == {p \in DOMAIN T : T[p][2] = cell}
    IN  Tensor(Hk.w, [c1 \in 1..Rinc.size[1] |->
            [c \in 1..Hk.w |->
                RatDivInt(SumRats([p \in DOMAIN T |-> IncidenceMessages(Hk, Rinc)[p][c]],
                                  of(c1 - 1)),
                          Max2(1, Cardinality(of(c1 - 1))))]])

-----------------------------------------------------------------------------
(* Properties of the aggregation *)

\* the nonzeros of R with source (row) index i, as positions of the
\* canonical enumeration
FromSource(R, i) ==
    LET E == Enumeration(R)
    IN  {p \in DOMAIN E : E[p][1] = i}

\* agg has one row per node of R, row i the sum (divided by the number of
\* summands when mean is set) of the rows of msgs of the nonzeros with
\* source i, and zero when there is none
ReducedBySource(agg, R, msgs, mean) ==
    /\ agg.ok
    /\ Len(agg.r) = R.size[1]
    /\ \A i1 \in 1..R.size[1], c \in 1..msgs.w :
          \A total \in {SumRats([p \in DOMAIN msgs.r |-> msgs.r[p][c]], FromSource(R, i1 - 1))} :
              /\ FromSource(R, i1 - 1) = {} => agg.r[i1][c] = RatOfInt(0)
              /\ agg.r[i1][c] =
                    IF mean THEN RatDivInt(total, Max2(1, Cardinality(FromSource(R, i1 - 1))))
                    ELSE total

-----------------------------------------------------------------------------
(* Properties of the coordinate update *)

\* the Euclidean length of u - v
Distance(u, v) ==
    CHOOSE n \in 0..(Abs(u[1] - v[1]) + Abs(u[2] - v[2]) + Abs(u[3] - v[3])) :
        n * n = (u[1] - v[1]) * (u[1] - v[1]) + (u[2] - v[2]) * (u[2] - v[2])
                + (u[3] - v[3]) * (u[3] - v[3])

\* component c of the contribution of relation A with weights w to node i:
\* the sum over the nonzeros (i, j) of w_ij (X[i] - X[j]) / (||X[i] - X[j]|| + 1),
\* divided by max(1, number of nonzeros with source i)
Contribution(X, A, w, i, c) ==
    LET E == Enumeration(A)
        from == FromSource(A, i)
        term(p) ==
            LET xi == X.r[i + 1]
                xj == X.r[E[p][2] + 1]
            IN  RatDivInt(RatMulInt(w.r[p][1], xi[c] - xj[c]), Distance(xi, xj) + 1)
    IN  RatDivInt(SumRats([p \in from |-> term(p)], from), Max2(1, Cardinality(from)))

Isolated(a, i) == FromSource(a.N0_0_via_1, i) = {} /\ FromSource(a.N0_0_via_2, i) = {}

\* C5: with position_update enabled, once the update is computed, X'[i] is
\* X[i] plus the sum over the two relation types of the contribution
\* (sum over the nonzeros (i, j) of w_ij (X[i] - X[j]) / (||X[i] - X[j]|| + 1),
\* divided by max(1, number of nonzeros with source i)), w being the
\* relinked weights; a node isolated in both relations keeps X'[i] = X[i].
C5_CoordinateUpdate ==
    (pc \in {"UPDATE", "DONE"} /\ args.position_update) =>
        \A m \in {message(args)} :
            \A w1 \in {cast_dense_by_sparse_link(phi_x(m.msg_edge), args.N1_0, args.N0_0_via_1)},
               w2 \in {cast_dense_by_sparse_link(phi_x(m.msg_sse), args.N2_0, args.N0_0_via_2)} :
                /\ loc.X.t.ok
                /\ Len(loc.X.t.r) = Len(args.X.r)
                /\ \A i \in 0..(Len(args.X.r) - 1), c \in 1..3 :
                      /\ loc.X.t.r[i + 1][c] =
                            RatAdd(RatOfInt(args.X.r[i + 1][c]),
                                   RatAdd(Contribution(args.X, args.N0_0_via_1, w1, i, c),
                                          Contribution(args.X, args.N0_0_via_2, w2, i, c)))
                      /\ Isolated(args, i) => loc.X.t.r[i + 1][c] = RatOfInt(args.X.r[i + 1][c])

\* a finished pass with position_update in which one node is moved by a
\* relation that holds two nonzeros from it, and another node is isolated
\* in both relations
C5_MovedAndIsolated ==
    /\ pc = "DONE"
    /\ args.position_update
    /\ \E i \in 0..(NNodes - 1) :
          /\ Cardinality(FromSource(args.N0_0_via_1, i)) >= 2
          /\ \E c \in 1..3 : out.X.t.r[i + 1][c] # RatOfInt(args.X.r[i + 1][c])
    /\ \E i \in 0..(NNodes - 1) : Isolated(args, i)

-----------------------------------------------------------------------------
(* Properties of one invocation of forward *)

ForwardStages == AfterMessage \cup {"INIT", "FAILED"}

StageOrder ==
    {<<"INIT", "MESSAGE">>, <<"MESSAGE", "INTRA_AGGREGATE">>,
     <<"INTRA_AGGREGATE", "INTER_AGGREGATE">>, <<"INTER_AGGREGATE", "UPDATE">>,
     <<"UPDATE", "DONE">>}

Abort == {<<s, "FAILED">> : s \in {"INIT", "MESSAGE", "INTRA_AGGREGATE", "INTER_AGGREGATE"}}

\* the caller holds both results, each a tensor, or neither
BothOrNeither(o) ==
    \/ o = NoOut
    \/ o.H0 # NoObj /\ o.X # NoObj /\ o.H0.t.ok /\ o.X.t.ok

\* a step of an invocation of forward
StageStep ==
    pc \in ForwardStages =>
        /\ <<pc, pc'>> \in StageOrder \cup Abort
        /\ BothOrNeither(out')
        /\ (out' # NoOut) <=> (pc' = "DONE")

\* C6: every step of an invocation moves to the next stage of INIT, MESSAGE,
\* INTRA_AGGREGATE, INTER_AGGREGATE, UPDATE, DONE or aborts; an aborted
\* invocation takes no further step; the caller holds no new H0 and no new X
\* before DONE and after an abort, and holds both at DONE.
C6_StageOrder == [][StageStep]_vars

\* an invocation that failed after the message stage had made its two
\* relink calls
C6_AbortedAfterMessage ==
    /\ pc = "FAILED"
    /\ Len(calls) > 2
    /\ loc.msg_edge.ok
    /\ out = NoOut

\* C7: during and after an invocation of forward, and after a call of
\* cast_dense_by_sparse_link, compute_sparse_messages or
\* intra_neighborhood_agg, the caller's tensors hold what they held at the
\* call; the returned H0' and X' are objects other than the input H0 and X.
C7_InputsUnchanged ==
    /\ args = args0
    /\ pc = "DONE" =>
          /\ out.H0.id \notin {"H0", "X"}
          /\ out.X.id \notin {"H0", "X"}
          /\ out.H0.id # out.X.id

\* a finished pass with position_update whose results differ from the inputs
C7_NewResults ==
    /\ pc = "DONE"
    /\ args.position_update
    /\ out.H0.t # args.H0
    /\ \E i1 \in DOMAIN args.X.r, c \in 1..3 : out.X.t.r[i1][c] # RatOfInt(args.X.r[i1][c])

\* C10: in every cast_dense_by_sparse_link call of a layer pass the dense
\* argument has one row per nonzero of S1, and row p was computed for the
\* p-th nonzero of S1 in S1's canonical enumeration.
C10_LinkContract ==
    pc \in ForwardStages =>
        \A k \in DOMAIN calls :
            /\ calls[k].x_rows = Len(calls[k].S1_idx)
            /\ \A p \in DOMAIN calls[k].x_for :
                  /\ calls[k].x_rel = calls[k].S1_rel
                  /\ calls[k].x_for[p] = calls[k].S1_idx[p]

-----------------------------------------------------------------------------
(* Properties of the pair of invocations *)

Identity == [n |-> <<<<1, 0, 0>>, <<0, 1, 0>>, <<0, 0, 1>>>>, d |-> 1]

\* the row vector v Q + t for a row of rationals
RatMoveRow(v, Q, t) ==
    [c \in 1..3 |->
        RatAdd(RatDivInt(RatAdd(RatAdd(RatMulInt(v[1], Q.n[1][c]), RatMulInt(v[2], Q.n[2][c])),
                                RatMulInt(v[3], Q.n[3][c])), Q.d),
               RatOfInt(t[c]))]

\* the second invocation ran on coordinates that a rotation or reflection
\* and a translation really changed, over a relation with a nonzero
\* between two different nodes
ReallyMoved ==
    /\ pc = "pair_returned"
    /\ args.Q # Identity
    /\ args.t # <<0, 0, 0>>
    /\ Moved(args.X, args.Q, args.t) # args.X
    /\ \E q \in DOMAIN args.N0_0_via_1.idx :
          args.N0_0_via_1.idx[q][1] # args.N0_0_via_1.idx[q][2]

\* C8: for the same features, relations and transformers, the pass on X and
\* the pass on X Q + t end in the same stage and return the same H0'.
C8_ScalarInvariance ==
    pc = "pair_returned" =>
        /\ out.plain.pc = out.moved.pc
        /\ out.plain.out.H0.t = out.moved.out.H0.t

\* both passes finished and returned features other than the input's
C8_InvariantPass ==
    /\ ReallyMoved
    /\ out.plain.pc = "DONE"
    /\ out.moved.pc = "DONE"
    /\ out.plain.out.H0.t # args.H0

\* C9: for the same features, relations and transformers, the coordinates
\* returned for X Q + t are the coordinates returned for X, multiplied by Q
\* and moved by t.
C9_CoordinateEquivariance ==
    (pc = "pair_returned" /\ out.plain.pc = "DONE") =>
        /\ out.moved.pc = "DONE"
        /\ out.moved.out.X.t =
              Tensor(3, [i1 \in DOMAIN out.plain.out.X.t.r |->
                            RatMoveRow(out.plain.out.X.t.r[i1], args.Q, args.t)])

\* both passes finished with position_update and moved a node
C9_EquivariantUpdate ==
    /\ ReallyMoved
    /\ args.position_update
    /\ out.plain.pc = "DONE"
    /\ \E i1 \in DOMAIN args.X.r, c \in 1..3 :
          out.plain.out.X.t.r[i1][c] # RatOfInt(args.X.r[i1][c])

=============================================================================
